---- MODULE Spec2Model ----
(***************************************************************************)
(* A model of the Deis controller's REST views (api/views.py): the scale   *)
(* endpoints of Formations and Apps, FormationNodeViewSet.add, the Config  *)
(* merge of AppConfigViewSet.create, the App create/update/destroy hooks   *)
(* with their Celery converge group, and FormationViewSet.destroy.         *)
(*                                                                         *)
(* Every request is handled by its own worker (request-parallel); a        *)
(* handler is cut into steps exactly at its database accesses and task     *)
(* waits, the only places where another request can interleave.            *)
(***************************************************************************)
EXTENDS Integers, Sequences, FiniteSets, TLC

\* ------------------------------------------------------------------ bounds

\* Largest integer count a client sends in a scale request.
MaxCount == 1
\* Number of Provider rows in the database.
NumProviders == 2
\* Number of requests the scale endpoints of one App handle at the same time.
NumScaleClients == 2
\* Number of node add requests handled at the same time.
NumNodeClients == 2
\* Most Node rows the database holds.
MaxNodes == 3
\* Number of keys and of values a Config can hold.
NumConfigKeys == 3
NumConfigValues == 2
\* Number of Config create requests handled at the same time.
NumConfigClients == 2
\* Most App rows the database holds.
MaxApps == 2
\* Number of App create/update/destroy requests handled at the same time.
NumAppClients == 2

\* ------------------------------------------------------------ fixed worlds

Users == {"alice", "bob"}
Types == {"web", "worker"}
FormationIds == {"f1", "f2"}
LayerIds == {"runtime", "proxy"}
Fqdns == {"n1.example.com", "n2.example.com"}
AppIds == {"a1", "a2"}

\* Every Formation and App of the model belongs to alice; bob reaches them
\* only through an object permission.
FormationOwner(f) == "alice"
\* Formation.domain: f1 has none, f2 has one.
FormationDomain(f) == IF f = "f1" THEN "" ELSE "deis.example.com"
LayerOwner(l) == "alice"
AppOwner(a) == "alice"

\* ---------------------------------------------------------------- dicts

\* A Python dict is a function on its key set.
EmptyDict == <<>>

\* dict.update(u): u's entries override d's.
DictUpdate(d, u) ==
  [k \in (DOMAIN d) \cup (DOMAIN u) |-> IF k \in DOMAIN u THEN u[k] ELSE d[k]]

\* dict.pop(k) for every k of ks (each k is present when it is popped).
DictPopAll(d, ks) == [k \in (DOMAIN d) \ ks |-> d[k]]

\* ------------------------------------------------------- JSON values, int()

\* A JSON value of request.DATA: an integer, a number with a fraction (in
\* tenths), a string (its characters) or null.
IntV(n) == [kind |-> "int", n |-> n, s |-> <<>>]
FloatV(tenths) == [kind |-> "float", n |-> tenths, s |-> <<>>]
StrV(s) == [kind |-> "str", n |-> 0, s |-> s]
NullV == [kind |-> "null", n |-> 0, s |-> <<>>]

Digits == <<"0", "1", "2", "3", "4", "5", "6", "7", "8", "9">>
IsDigit(c) == \E i \in 1..10 : Digits[i] = c
DigitVal(c) == (CHOOSE i \in 1..10 : Digits[i] = c) - 1

RECURSIVE DigitsVal(_)
DigitsVal(ds) ==
  IF ds = <<>> THEN 0
  ELSE 10 * DigitsVal(SubSeq(ds, 1, Len(ds) - 1)) + DigitVal(ds[Len(ds)])

Returned(n) == [ok |-> TRUE, val |-> n, exc |-> "none"]
Raised(e) == [ok |-> FALSE, val |-> 0, exc |-> e]

\* int(s) of a string: an optional sign and then decimal digits, anything
\* else raises ValueError.
PyIntOfStr(s) ==
  LET signed == Len(s) > 0 /\ s[1] \in {"-", "+"}
      body == IF signed THEN Tail(s) ELSE s
  IN  IF Len(body) > 0 /\ \A i \in 1..Len(body) : IsDigit(body[i])
      THEN Returned(IF signed /\ s[1] = "-" THEN 0 - DigitsVal(body)
                    ELSE DigitsVal(body))
      ELSE Raised("ValueError")

\* int(x) of a float truncates toward zero.
PyIntOfFloat(tenths) ==
  IF tenths >= 0 THEN tenths \div 10 ELSE 0 - ((0 - tenths) \div 10)

\* Python's int(count): an int is returned as it is, a float is truncated,
\* a string is parsed, and None raises TypeError.
PyInt(v) ==
  CASE v.kind = "int" -> Returned(v.n)
    [] v.kind = "float" -> Returned(PyIntOfFloat(v.n))
    [] v.kind = "str" -> PyIntOfStr(v.s)
    [] OTHER -> Raised("TypeError")

\* The values a client puts in a scale request.
ScaleValues ==
  {IntV(n) : n \in (0 - 1)..MaxCount}
    \cup {FloatV(15), StrV(<<"1">>), StrV(<<"a", "b", "c">>), NullV}

\* request.DATA of a scale request: a mapping of container type -> value.
ScaleRequests == UNION {[ts -> ScaleValues] : ts \in SUBSET Types}

\* A JSON value that is an integer (a number, or a string holding one).
IsIntegerValue(v) ==
  \/ v.kind = "int"
  \/ v.kind = "str" /\ PyIntOfStr(v.s).ok

HasNonInteger(data) == \E t \in DOMAIN data : ~IsIntegerValue(data[t])
HasNegative(data) ==
  \E t \in DOMAIN data : IsIntegerValue(data[t]) /\ PyInt(data[t]).val < 0

\* The loop `for target, count in request.DATA.items(): new_structure[target]
\* = int(count)`: the dict is walked in an order the client does not control,
\* and the first value int() rejects ends the loop with its exception.
ParseOutcomes(data) ==
  LET bad == {t \in DOMAIN data : ~PyInt(data[t]).ok}
  IN  IF bad = {}
      THEN {[exc |-> "none",
             new_structure |-> [t \in DOMAIN data |-> PyInt(data[t]).val]]}
      ELSE {[exc |-> PyInt(data[t]).exc, new_structure |-> EmptyDict] : t \in bad}

\* ------------------------------------------------------------- responses

NoResponse == [status |-> 0, body |-> "none"]
Response(status, body) == [status |-> status, body |-> body]
InvalidScaleFormat == Response(400, "Invalid scaling format")
NoProviderCredentials == Response(400, "No provider credentials available")
\* get_object() raised Http404.
NotFound == Response(404, "Not found")
\* An exception no handler catches: the framework answers 500.
ServerError == Response(500, "Internal server error")

\* ------------------------------------------------------------- variables

VARIABLES
  providers,          \* Provider rows: ProviderIds -> [owner, creds]
  grants,             \* object permissions: <<user, permission, object id>>
  appContainers,      \* App.containers, the stored structure, per App
  containerLayout,    \* number of Container rows per (App, type)
  scaleReq,           \* the scale requests being handled, per client
  formations,         \* ids of the Formation rows
  layers,             \* ids of the Layer rows
  nodes,              \* the Node rows, in the order they were created
  nodeReq,            \* the node add requests being handled, per client
  destroyReq,         \* the Formation destroy requests being handled
  configs,            \* the Config rows, in the order they were created
  configReq,          \* the Config create requests being handled
  appRows,            \* the App rows: slot -> the Formation, or "none"
  appReq              \* the App create/update/destroy requests being handled

scaleVars == <<providers, grants, appContainers, containerLayout, scaleReq>>
formationVars == <<formations, layers, nodes, nodeReq, destroyReq>>
configVars == <<configs, configReq>>
appVars == <<appRows, appReq>>

vars == <<scaleVars, formationVars, configVars, appVars>>

scaleOthers == <<formationVars, configVars, appVars>>
formationOthers == <<scaleVars, configVars, appVars>>
configOthers == <<scaleVars, formationVars, appVars>>
appOthers == <<scaleVars, formationVars, configVars>>

\* ------------------------------------------- permissions and get_object

Forbidden == Response(403, "Permission denied")

\* IsOwner.has_object_permission for an object that has an owner.
IsOwner(user, owner) == owner = user

\* The generic get_object(): 404 when the queryset does not hold the id,
\* 403 when IsOwner refuses the object.
GetObject(user, id, queryset, owner) ==
  IF id \notin queryset THEN "404"
  ELSE IF ~IsOwner(user, owner) THEN "403"
  ELSE "ok"

LookupResponse(code) == IF code = "404" THEN NotFound ELSE Forbidden

\* ------------------------------------------------------ scale endpoints

ProviderIds == 1..NumProviders
NoProvider == [owner |-> "none", creds |-> {}]
\* A Provider row: its owner and its creds (the keys of the creds mapping).
ProviderRows == {NoProvider} \cup [owner : Users, creds : {{}, {"access_key"}}]

GrantUniverse ==
  {<<"bob", "api.use_formation", "f1">>, <<"bob", "api.change_app", "a1">>}

\* guardian's get_objects_for_user(user, perm).
ObjectsForUser(user, perm) ==
  {g[3] : g \in {h \in grants : h[1] = user /\ h[2] = perm}}

\* FormationViewSet.get_queryset: owned, or usable through the permission.
FormationQueryset(user) ==
  {f \in FormationIds : FormationOwner(f) = user}
    \cup (ObjectsForUser(user, "api.use_formation") \cap FormationIds)

\* AppViewSet.get_queryset: owned, or changeable through the permission.
AppQueryset(user) ==
  {a \in AppIds : AppOwner(a) = user}
    \cup (ObjectsForUser(user, "api.change_app") \cap AppIds)

\* The for/else of FormationViewSet.scale: some Provider of the requester
\* has truthy creds.
HasCredentials_AnyOwner(user) ==
  \E p \in ProviderIds : providers[p] # NoProvider /\ providers[p].creds # {}

HasCredentials(user) ==
  \E p \in ProviderIds : providers[p].owner = user /\ providers[p].creds # {}

IdleScale ==
  [pc |-> "idle", view |-> "none", user |-> "none", id |-> "none",
   hadNonInteger |-> FALSE, hadNegative |-> FALSE, parsed |-> FALSE,
   new_structure |-> EmptyDict, containers |-> EmptyDict,
   invoked |-> FALSE, saved |-> FALSE, converged |-> FALSE,
   response |-> NoResponse]

ScaleDone(r, resp) ==
  scaleReq' = [scaleReq EXCEPT ![r].pc = "done", ![r].response = resp]

\* Lines 171-176 and 332-337: the request arrives and its mapping is parsed.
ScaleParse(r, view, ids) ==
  /\ scaleReq[r].pc = "idle"
  /\ \E user \in Users, id \in ids, data \in ScaleRequests :
       \E out \in ParseOutcomes(data) :
         LET q == [IdleScale EXCEPT !.view = view, !.user = user, !.id = id,
                     !.hadNonInteger = HasNonInteger(data),
                     !.hadNegative = HasNegative(data)]
         IN  scaleReq' = [scaleReq EXCEPT ![r] =
               CASE out.exc = "ValueError" ->
                      [q EXCEPT !.pc = "done", !.response = InvalidScaleFormat]
                 [] out.exc = "TypeError" ->
                      [q EXCEPT !.pc = "done", !.response = ServerError]
                 [] OTHER ->
                      [q EXCEPT !.pc = IF view = "formation" THEN "creds"
                                       ELSE "get_object",
                                !.parsed = TRUE,
                                !.new_structure = out.new_structure]]
  /\ UNCHANGED <<providers, grants, appContainers, containerLayout, scaleOthers>>

FormationScaleParse(r) == ScaleParse(r, "formation", FormationIds)

\* Lines 177-182: check for empty credentials.
FormationScaleCredentials(r) ==
  /\ scaleReq[r].pc = "creds"
  /\ IF HasCredentials(scaleReq[r].user)
     THEN scaleReq' = [scaleReq EXCEPT ![r].pc = "get_object"]
     ELSE ScaleDone(r, NoProviderCredentials)
  /\ UNCHANGED <<providers, grants, appContainers, containerLayout, scaleOthers>>

\* Line 183: formation = self.get_object().
FormationScaleGetObject(r) ==
  /\ scaleReq[r].pc = "get_object"
  /\ scaleReq[r].view = "formation"
  /\ LET code == GetObject(scaleReq[r].user, scaleReq[r].id,
                           FormationQueryset(scaleReq[r].user) \cap formations,
                           FormationOwner(scaleReq[r].id))
     IN  IF code = "ok"
         THEN scaleReq' = [scaleReq EXCEPT ![r].pc = "node_scale"]
         ELSE ScaleDone(r, LookupResponse(code))
  /\ UNCHANGED <<providers, grants, appContainers, containerLayout, scaleOthers>>

\* Node.objects.scale(formation, structure): it returns a databag, or raises
\* Layer.DoesNotExist or EnvironmentError.
NodeScaleOutcomes(structure) == {"ok", "Layer.DoesNotExist", "EnvironmentError"}

\* Lines 184-189: Node.objects.scale and the response built from it.
FormationScaleNodes(r) ==
  /\ scaleReq[r].pc = "node_scale"
  /\ \E out \in NodeScaleOutcomes(scaleReq[r].new_structure) :
       scaleReq' = [scaleReq EXCEPT
         ![r].pc = "done", ![r].invoked = TRUE,
         ![r].response = IF out = "ok" THEN Response(200, "databag")
                         ELSE Response(400, out)]
  /\ UNCHANGED <<providers, grants, appContainers, containerLayout, scaleOthers>>

AppScaleParse(r) == ScaleParse(r, "app", AppIds)

\* Line 338: app = self.get_object(); the App row is read with its containers.
AppScaleGetObject(r) ==
  /\ scaleReq[r].pc = "get_object"
  /\ scaleReq[r].view = "app"
  /\ LET code == GetObject(scaleReq[r].user, scaleReq[r].id,
                           AppQueryset(scaleReq[r].user),
                           AppOwner(scaleReq[r].id))
     IN  IF code = "ok"
         THEN scaleReq' = [scaleReq EXCEPT
                ![r].pc = "container_scale",
                ![r].containers = appContainers[scaleReq[r].id]]
         ELSE ScaleDone(r, LookupResponse(code))
  /\ UNCHANGED <<providers, grants, appContainers, containerLayout, scaleOthers>>

\* Container.objects.scale(app, structure): validates the whole structure
\* first (a negative count, or a type no Node can host, fails it with no
\* Container touched) and then brings every requested type to its count.
ContainerScaleOutcomes(structure) ==
  IF \E t \in DOMAIN structure : structure[t] < 0
  THEN {"EnvironmentError", "uncaught"}
  ELSE {"ok", "EnvironmentError"}

ContainerScaleLayout(layout, structure) ==
  [t \in Types |-> IF t \in DOMAIN structure THEN structure[t] ELSE layout[t]]

\* Lines 339-342: models.Container.objects.scale(app, new_structure).
AppScaleContainers(r) ==
  /\ scaleReq[r].pc = "container_scale"
  /\ \E out \in ContainerScaleOutcomes(scaleReq[r].new_structure) :
       CASE out = "ok" ->
              /\ containerLayout' = [containerLayout EXCEPT ![scaleReq[r].id] =
                   ContainerScaleLayout(@, scaleReq[r].new_structure)]
              /\ scaleReq' = [scaleReq EXCEPT ![r].pc = "save",
                                              ![r].invoked = TRUE]
         [] out = "EnvironmentError" ->
              /\ scaleReq' = [scaleReq EXCEPT
                   ![r].pc = "done", ![r].invoked = TRUE,
                   ![r].response = Response(400, "EnvironmentError")]
              /\ UNCHANGED containerLayout
         [] OTHER ->
              /\ scaleReq' = [scaleReq EXCEPT
                   ![r].pc = "done", ![r].invoked = TRUE,
                   ![r].response = ServerError]
              /\ UNCHANGED containerLayout
  /\ UNCHANGED <<providers, grants, appContainers, scaleOthers>>

\* Lines 344-345: app.containers.update(new_structure); app.save(). The row
\* is written from the object read at line 338.
AppScaleSave(r) ==
  /\ scaleReq[r].pc = "save"
  /\ LET updated == DictUpdate(scaleReq[r].containers, scaleReq[r].new_structure)
     IN  /\ appContainers' = [appContainers EXCEPT ![scaleReq[r].id] = updated]
         /\ scaleReq' = [scaleReq EXCEPT ![r].pc = "converge",
                                         ![r].containers = updated,
                                         ![r].saved = TRUE]
  /\ UNCHANGED <<providers, grants, containerLayout, scaleOthers>>

\* Lines 346-348: databag = app.converge() and the 200 response.
AppScaleConverge(r) ==
  /\ scaleReq[r].pc = "converge"
  /\ scaleReq' = [scaleReq EXCEPT ![r].pc = "done", ![r].converged = TRUE,
                                  ![r].response = Response(200, "databag")]
  /\ UNCHANGED <<providers, grants, appContainers, containerLayout, scaleOthers>>

\* ------------------------------------------------- FormationNodeViewSet.add

NodeRow(f, l, fqdn, state) ==
  [formation |-> f, layer |-> l, fqdn |-> fqdn, state |-> state]

IdleNode ==
  [pc |-> "idle", user |-> "none", id |-> "none", layer |-> "none",
   fqdn |-> "none", created |-> 0, built |-> FALSE, response |-> NoResponse]

NodeDone(r, resp) ==
  nodeReq' = [nodeReq EXCEPT ![r].pc = "done", ![r].response = resp]

\* Lines 271-275: the request arrives; Formation.objects.get and
\* Layer.objects.get raise DoesNotExist for rows the requester does not own.
NodeAddLookup(r) ==
  /\ nodeReq[r].pc = "idle"
  /\ \E user \in Users, f \in FormationIds, l \in LayerIds, fqdn \in Fqdns :
       LET q == [IdleNode EXCEPT !.user = user, !.id = f, !.layer = l,
                                 !.fqdn = fqdn]
           found == /\ f \in formations /\ FormationOwner(f) = user
                    /\ l \in layers /\ LayerOwner(l) = user
       IN  nodeReq' = [nodeReq EXCEPT ![r] =
             IF found THEN [q EXCEPT !.pc = "exists"]
             ELSE [q EXCEPT !.pc = "done", !.response = ServerError]]
  /\ UNCHANGED <<formations, layers, nodes, destroyReq, formationOthers>>

\* self.model.objects.filter(fqdn=fqdn, formation=formation, layer=layer).exists()
NodeExists(f, l, fqdn) ==
  \E i \in DOMAIN nodes :
    nodes[i].formation = f /\ nodes[i].layer = l /\ nodes[i].fqdn = fqdn

\* Lines 276-278: the duplicate check and its 409.
NodeAddExists(r) ==
  /\ nodeReq[r].pc = "exists"
  /\ IF NodeExists(nodeReq[r].id, nodeReq[r].layer, nodeReq[r].fqdn)
     THEN NodeDone(r, Response(409, "A node with fqdn already exists"))
     ELSE nodeReq' = [nodeReq EXCEPT ![r].pc = "new"]
  /\ UNCHANGED <<formations, layers, nodes, destroyReq, formationOthers>>

\* Node.objects.new(formation, layer, fqdn): the Node row is created in
\* state requested.
NodeNew(f, l, fqdn) == Append(nodes, NodeRow(f, l, fqdn, "requested"))

\* Line 279.
NodeAddNew(r) ==
  /\ nodeReq[r].pc = "new"
  /\ Len(nodes) < MaxNodes
  /\ nodes' = NodeNew(nodeReq[r].id, nodeReq[r].layer, nodeReq[r].fqdn)
  /\ nodeReq' = [nodeReq EXCEPT ![r].pc = "build", ![r].created = Len(nodes) + 1]
  /\ UNCHANGED <<formations, layers, destroyReq, formationOthers>>

\* node.build(): the provider brings the Node up, or fails; the Node is then
\* marked down and the error reaches the caller.
NodeBuildOutcomes == {"up", "down"}

\* Lines 280-281.
NodeAddBuild(r) ==
  /\ nodeReq[r].pc = "build"
  /\ \E out \in NodeBuildOutcomes :
       /\ nodes' = [nodes EXCEPT ![nodeReq[r].created].state = out]
       /\ nodeReq' = [nodeReq EXCEPT
            ![r].pc = "done", ![r].built = TRUE,
            ![r].response = IF out = "up" THEN Response(201, "created")
                            ELSE ServerError]
  /\ UNCHANGED <<formations, layers, destroyReq, formationOthers>>

\* The response is sent; the worker takes the next request.
NodeAddRespond(r) ==
  /\ nodeReq[r].pc = "done"
  /\ nodeReq' = [nodeReq EXCEPT ![r] = IdleNode]
  /\ UNCHANGED <<formations, layers, nodes, destroyReq, formationOthers>>

\* ------------------------------------------------ FormationViewSet.destroy

IdleDestroy ==
  [pc |-> "idle", user |-> "none", id |-> "none", deprovisionFailed |-> FALSE,
   removedNodes |-> 0, removedLayers |-> 0, dispatched |-> 0,
   task |-> "none", response |-> NoResponse]

\* Line 210: formation = self.get_object().
FormationDestroyGetObject(r) ==
  /\ destroyReq[r].pc = "idle"
  /\ \E user \in Users, f \in FormationIds :
       LET q == [IdleDestroy EXCEPT !.user = user, !.id = f]
           code == GetObject(user, f, FormationQueryset(user) \cap formations,
                             FormationOwner(f))
       IN  destroyReq' = [destroyReq EXCEPT ![r] =
             IF code = "ok" THEN [q EXCEPT !.pc = "destroy"]
             ELSE [q EXCEPT !.pc = "done", !.response = LookupResponse(code)]]
  /\ UNCHANGED <<formations, layers, nodes, nodeReq, formationOthers>>

\* The rows of `nodes` other than row i.
WithoutNode(i) ==
  [j \in 1..(Len(nodes) - 1) |-> IF j < i THEN nodes[j] ELSE nodes[j + 1]]

\* Node.destroy(): the provider's deprovision call.
DeprovisionOutcomes == {"ok", "ProviderFailure"}

\* formation.destroy(), one Node at a time: the Node is deprovisioned and
\* its row removed whatever the provider answered.
FormationDestroyNode(r) ==
  /\ destroyReq[r].pc = "destroy"
  /\ \E i \in DOMAIN nodes, out \in DeprovisionOutcomes :
       /\ nodes[i].formation = destroyReq[r].id
       /\ nodes' = WithoutNode(i)
       /\ destroyReq' = [destroyReq EXCEPT
            ![r].removedNodes = @ + 1,
            ![r].deprovisionFailed = @ \/ (out = "ProviderFailure")]
  /\ UNCHANGED <<formations, layers, nodeReq, formationOthers>>

\* formation.destroy(), the end: with its Nodes gone, the Layers and the
\* Formation row are removed.
FormationDestroyLayers(r) ==
  /\ destroyReq[r].pc = "destroy"
  /\ \A i \in DOMAIN nodes : nodes[i].formation # destroyReq[r].id
  /\ layers' = {}
  /\ formations' = formations \ {destroyReq[r].id}
  /\ destroyReq' = [destroyReq EXCEPT ![r].pc = "dispatch",
                                      ![r].removedLayers = Cardinality(layers)]
  /\ UNCHANGED <<nodes, nodeReq, formationOthers>>

\* Line 212, tasks.converge_controller.delay(): the task is queued.
FormationDestroyDispatch(r) ==
  /\ destroyReq[r].pc = "dispatch"
  /\ destroyReq' = [destroyReq EXCEPT ![r].pc = "wait", ![r].task = "pending",
                                      ![r].dispatched = @ + 1]
  /\ UNCHANGED <<formations, layers, nodes, nodeReq, formationOthers>>

\* A Celery worker takes the queued task.
ControllerTaskStart(r) ==
  /\ destroyReq[r].task = "pending"
  /\ destroyReq' = [destroyReq EXCEPT ![r].task = "running"]
  /\ UNCHANGED <<formations, layers, nodes, nodeReq, formationOthers>>

\* A task ends with its result, or with the exception it raised.
TaskOutcomes == {"success", "failure"}

\* The Celery worker finishes the task.
ControllerTaskFinish(r) ==
  /\ destroyReq[r].task = "running"
  /\ \E out \in TaskOutcomes :
       destroyReq' = [destroyReq EXCEPT ![r].task = out]
  /\ UNCHANGED <<formations, layers, nodes, nodeReq, formationOthers>>

\* Lines 212-213, .wait(): blocks until the task is ready, re-raises its
\* exception, and otherwise the 204 follows.
FormationDestroyWait_NoWait(r) ==
  /\ destroyReq[r].pc = "wait"
  /\ destroyReq' = [destroyReq EXCEPT
       ![r].pc = "done",
       ![r].response = IF destroyReq[r].task = "failure" THEN ServerError
                       ELSE Response(204, "")]
  /\ UNCHANGED <<formations, layers, nodes, nodeReq, formationOthers>>

FormationDestroyWait(r) ==
  /\ destroyReq[r].pc = "wait"
  /\ destroyReq[r].task \in {"success", "failure"}
  /\ destroyReq' = [destroyReq EXCEPT
       ![r].pc = "done",
       ![r].response = IF destroyReq[r].task = "success" THEN Response(204, "")
                       ELSE ServerError]
  /\ UNCHANGED <<formations, layers, nodes, nodeReq, formationOthers>>

\* ------------------------------------------------ AppConfigViewSet.create

KeyNames == <<"A", "B", "C", "D", "E">>
ValueNames == <<"1", "2", "3", "4">>
ConfigKeys == {KeyNames[i] : i \in 1..NumConfigKeys}
\* The values of a Config are JSON strings; a provided value may be null.
ConfigValues == {StrV(<<ValueNames[i]>>) : i \in 1..NumConfigValues}
ConfigMaps == UNION {[ks -> ConfigValues] : ks \in SUBSET ConfigKeys}
ProvidedMaps ==
  UNION {[ks -> ConfigValues \cup {NullV}] : ks \in SUBSET ConfigKeys}

ConfigRow(a, version, values) ==
  [app |-> a, version |-> version, values |-> values]

\* Lines 418-422: values = obj.values.copy(); values.update(provided); then
\* values.pop(k) for every k that provided maps to None.
MergeConfig_KeepNull(prior, provided) == DictUpdate(prior, provided)

MergeConfig(prior, provided) ==
  DictPopAll(DictUpdate(prior, provided),
             {k \in DOMAIN provided : provided[k] = NullV})

\* BaseAppViewSet.get_object: the index of the App's Config created last,
\* 0 when the App has none.
LatestConfig(a) ==
  LET mine == {i \in DOMAIN configs : configs[i].app = a}
  IN  IF mine = {} THEN 0 ELSE CHOOSE i \in mine : \A j \in mine : i >= j

\* Line 415: request.DATA['version'] = obj.version + 1.
NextVersion(version) == version + 1

IdleConfig ==
  [pc |-> "idle", user |-> "none", id |-> "none", provided |-> EmptyDict,
   seen |-> 0, base |-> 0, objVersion |-> 0, objValues |-> EmptyDict,
   version |-> 0, values |-> EmptyDict, created |-> 0,
   response |-> NoResponse]

\* Lines 411-423: the request arrives, get_object() reads the latest Config
\* of the App, and the new version and the merged values are put in
\* request.DATA.
ConfigCreateGetObject(r) ==
  /\ configReq[r].pc = "idle"
  /\ \E user \in Users, a \in AppIds, provided \in ProvidedMaps :
       LET q == [IdleConfig EXCEPT !.user = user, !.id = a,
                                   !.provided = provided,
                                   !.seen = Len(configs)]
           obj == LatestConfig(a)
       IN  configReq' = [configReq EXCEPT ![r] =
             IF AppOwner(a) # user
             THEN [q EXCEPT !.pc = "done", !.response = NotFound]
             ELSE IF obj = 0
             THEN [q EXCEPT !.pc = "done", !.response = ServerError]
             ELSE [q EXCEPT
                     !.pc = "save", !.base = obj,
                     !.objVersion = configs[obj].version,
                     !.objValues = configs[obj].values,
                     !.version = NextVersion(configs[obj].version),
                     !.values = MergeConfig(configs[obj].values, provided)]]
  /\ UNCHANGED <<configs, configOthers>>

\* Line 424, the create of the mixin: the new Config row is saved.
ConfigCreateSave(r) ==
  /\ configReq[r].pc = "save"
  /\ configs' = Append(configs, ConfigRow(configReq[r].id, configReq[r].version,
                                          configReq[r].values))
  /\ configReq' = [configReq EXCEPT ![r].pc = "post_save",
                                    ![r].created = Len(configs) + 1]
  /\ UNCHANGED configOthers

\* Lines 402-408: the release signal and the converge of the Formation, and
\* then the 201.
ConfigCreatePostSave(r) ==
  /\ configReq[r].pc = "post_save"
  /\ configReq' = [configReq EXCEPT ![r].pc = "done",
                                    ![r].response = Response(201, "created")]
  /\ UNCHANGED <<configs, configOthers>>

\* ----------------------------------------- AppViewSet: create, update, destroy

NoApp == [formation |-> "none", owner |-> "none"]
AppSlots == 1..MaxApps
AppsOf(f) == {i \in AppSlots : appRows[i].formation = f}

IdleApp ==
  [pc |-> "idle", op |-> "none", user |-> "none", formation |-> "none",
   slot |-> 0, built |-> FALSE, torn |-> FALSE, dispatched |-> 0,
   tasks |-> <<"none", "none">>, response |-> NoResponse]

AppDone(r, resp) ==
  appReq' = [appReq EXCEPT ![r].pc = "done", ![r].response = resp]

\* Line 321: a new App in a Formation without a domain that has an App.
MultipleApps(f) == FormationDomain(f) = "" /\ Cardinality(AppsOf(f)) > 0

\* App create requests that will still add a row.
AppsInFlight == {r \in DOMAIN appReq : appReq[r].pc = "save" /\ appReq[r].op = "create"}

\* Lines 320-329: a create request arrives and pre_save checks the Formation.
AppCreatePreSave(r) ==
  /\ appReq[r].pc = "idle"
  /\ Cardinality({i \in AppSlots : appRows[i] # NoApp})
       + Cardinality(AppsInFlight) < MaxApps
  /\ \E user \in Users, f \in FormationIds :
       LET q == [IdleApp EXCEPT !.op = "create", !.user = user, !.formation = f]
       IN  appReq' = [appReq EXCEPT ![r] =
             IF MultipleApps(f)
             THEN [q EXCEPT !.pc = "done",
                     !.response = Response(400,
                       "Formation does not support multiple apps")]
             ELSE [q EXCEPT !.pc = "save"]]
  /\ UNCHANGED <<appRows, appOthers>>

\* The create of the mixin saves the new App row.
AppCreateSave(r) ==
  /\ appReq[r].pc = "save"
  /\ appReq[r].op = "create"
  /\ \E i \in AppSlots : appRows[i] = NoApp
  /\ LET slot == CHOOSE i \in AppSlots :
                   appRows[i] = NoApp /\ \A j \in AppSlots : appRows[j] = NoApp => i <= j
     IN  /\ appRows' = [appRows EXCEPT ![slot] =
                          [formation |-> appReq[r].formation,
                           owner |-> appReq[r].user]]
         /\ appReq' = [appReq EXCEPT ![r].pc = "build", ![r].slot = slot]
  /\ UNCHANGED appOthers

\* Lines 315-316: app.build() of a created App.
AppCreateBuild(r) ==
  /\ appReq[r].pc = "build"
  /\ appReq' = [appReq EXCEPT ![r].pc = "dispatch", ![r].built = TRUE]
  /\ UNCHANGED <<appRows, appOthers>>

\* AppViewSet.get_queryset and IsOwner, over the App rows.
AppRowQueryset(user) ==
  {i \in AppSlots : appRows[i] # NoApp /\ appRows[i].owner = user}

\* An update request arrives; get_object() and the pre_save of an App that
\* has a pk.
AppUpdateGetObject(r) ==
  /\ appReq[r].pc = "idle"
  /\ \E user \in Users, slot \in AppSlots :
       LET q == [IdleApp EXCEPT !.op = "update", !.user = user, !.slot = slot]
           code == GetObject(user, slot, AppRowQueryset(user), appRows[slot].owner)
       IN  appReq' = [appReq EXCEPT ![r] =
             IF code = "ok"
             THEN [q EXCEPT !.pc = "save", !.formation = appRows[slot].formation]
             ELSE [q EXCEPT !.pc = "done", !.response = LookupResponse(code)]]
  /\ UNCHANGED <<appRows, appOthers>>

\* The update of the mixin saves the row; post_save(created=False) builds
\* nothing.
AppUpdateSave(r) ==
  /\ appReq[r].pc = "save"
  /\ appReq[r].op = "update"
  /\ appRows' = [appRows EXCEPT ![appReq[r].slot] =
                   [formation |-> appReq[r].formation, owner |-> appReq[r].user]]
  /\ appReq' = [appReq EXCEPT ![r].pc = "dispatch"]
  /\ UNCHANGED appOthers

\* Line 378: a destroy request arrives; app = self.get_object().
AppDestroyGetObject(r) ==
  /\ appReq[r].pc = "idle"
  /\ \E user \in Users, slot \in AppSlots :
       LET q == [IdleApp EXCEPT !.op = "destroy", !.user = user, !.slot = slot]
           code == GetObject(user, slot, AppRowQueryset(user), appRows[slot].owner)
       IN  appReq' = [appReq EXCEPT ![r] =
             IF code = "ok"
             THEN [q EXCEPT !.pc = "destroy", !.formation = appRows[slot].formation]
             ELSE [q EXCEPT !.pc = "done", !.response = LookupResponse(code)]]
  /\ UNCHANGED <<appRows, appOthers>>

\* Line 379: app.destroy() tears the App down and deletes its row.
AppDestroyTeardown(r) ==
  /\ appReq[r].pc = "destroy"
  /\ appRows' = [appRows EXCEPT ![appReq[r].slot] = NoApp]
  /\ appReq' = [appReq EXCEPT ![r].pc = "dispatch", ![r].torn = TRUE]
  /\ UNCHANGED appOthers

\* Lines 317-318 and 380-381, group(...).apply_async(): converge_formation
\* and converge_controller are queued together.
AppDispatch(r) ==
  /\ appReq[r].pc = "dispatch"
  /\ appReq' = [appReq EXCEPT ![r].pc = "join", ![r].dispatched = @ + 1,
                              ![r].tasks = <<"running", "running">>]
  /\ UNCHANGED <<appRows, appOthers>>

\* A Celery worker finishes one task of the group.
AppTaskFinish(r) ==
  /\ \E i \in 1..2, out \in TaskOutcomes :
       /\ appReq[r].tasks[i] = "running"
       /\ appReq' = [appReq EXCEPT ![r].tasks[i] = out]
  /\ UNCHANGED <<appRows, appOthers>>

\* GroupResult.join(): the results are awaited in their order, and the first
\* failed one re-raises its exception.
JoinOutcome_FirstOnly(tasks) ==
  IF tasks[1] = "failure" THEN "raise"
  ELSE IF tasks[1] = "success" THEN "ok"
  ELSE "wait"

JoinOutcome(tasks) ==
  IF tasks[1] = "running" THEN "wait"
  ELSE IF tasks[1] = "failure" THEN "raise"
  ELSE IF tasks[2] = "running" THEN "wait"
  ELSE IF tasks[2] = "failure" THEN "raise"
  ELSE "ok"

AppSuccess(op) ==
  CASE op = "create" -> Response(201, "created")
    [] op = "update" -> Response(200, "updated")
    [] OTHER -> Response(204, "")

\* Lines 318 and 381-382, .join(), and the response of the request.
AppJoin(r) ==
  /\ appReq[r].pc = "join"
  /\ JoinOutcome(appReq[r].tasks) # "wait"
  /\ AppDone(r, IF JoinOutcome(appReq[r].tasks) = "ok"
                THEN AppSuccess(appReq[r].op) ELSE ServerError)
  /\ UNCHANGED <<appRows, appOthers>>

\* The worker takes the next request; the record of the finished one is
\* kept until the tasks it queued have ended.
AppRespond(r) ==
  /\ appReq[r].pc = "done"
  /\ \A i \in 1..2 : appReq[r].tasks[i] # "running"
  /\ appReq' = [appReq EXCEPT ![r] = IdleApp]
  /\ UNCHANGED <<appRows, appOthers>>

\* ------------------------------------------------------ initial states

\* Each specification starts one part of the controller and leaves the
\* requests of the other parts unsent.
ScaleQuiet ==
  /\ providers = [p \in ProviderIds |-> NoProvider]
  /\ grants = {}
  /\ appContainers = [a \in AppIds |-> EmptyDict]
  /\ containerLayout = [a \in AppIds |-> [t \in Types |-> 0]]
  /\ scaleReq = [r \in {1} |-> IdleScale]

FormationQuiet ==
  /\ formations = FormationIds
  /\ layers = LayerIds
  /\ nodes = <<>>
  /\ nodeReq = [r \in {1} |-> IdleNode]
  /\ destroyReq = [r \in {1} |-> IdleDestroy]

ConfigQuiet ==
  /\ configs = <<>>
  /\ configReq = [r \in {1} |-> IdleConfig]

AppQuiet ==
  /\ appRows = [i \in AppSlots |-> NoApp]
  /\ appReq = [r \in {1} |-> IdleApp]

\* -------------------------------------------- specifications: scale

\* One request to FormationViewSet.scale, over every Provider table.
FormationScaleInit ==
  /\ grants \in SUBSET GrantUniverse
  /\ providers \in [ProviderIds -> ProviderRows]
  /\ appContainers = [a \in AppIds |-> EmptyDict]
  /\ containerLayout = [a \in AppIds |-> [t \in Types |-> 0]]
  /\ scaleReq = [r \in {1} |-> IdleScale]
  /\ FormationQuiet /\ ConfigQuiet /\ AppQuiet

FormationScaleNext ==
  \/ \E r \in DOMAIN scaleReq : FormationScaleParse(r)
  \/ \E r \in DOMAIN scaleReq : FormationScaleCredentials(r)
  \/ \E r \in DOMAIN scaleReq : FormationScaleGetObject(r)
  \/ \E r \in DOMAIN scaleReq : FormationScaleNodes(r)

SpecFormationScale == FormationScaleInit /\ [][FormationScaleNext]_vars

\* NumScaleClients clients, each sending one request to AppViewSet.scale at
\* the same time.
AppScaleInit ==
  /\ grants \in SUBSET GrantUniverse
  /\ providers = [p \in ProviderIds |-> NoProvider]
  /\ appContainers = [a \in AppIds |-> EmptyDict]
  /\ containerLayout = [a \in AppIds |-> [t \in Types |-> 0]]
  /\ scaleReq = [r \in 1..NumScaleClients |-> IdleScale]
  /\ FormationQuiet /\ ConfigQuiet /\ AppQuiet

AppScaleNext ==
  \/ \E r \in DOMAIN scaleReq : AppScaleParse(r)
  \/ \E r \in DOMAIN scaleReq : AppScaleGetObject(r)
  \/ \E r \in DOMAIN scaleReq : AppScaleContainers(r)
  \/ \E r \in DOMAIN scaleReq : AppScaleSave(r)
  \/ \E r \in DOMAIN scaleReq : AppScaleConverge(r)

SpecAppScale == AppScaleInit /\ [][AppScaleNext]_vars

\* One request to either scale endpoint.
ScaleNext == FormationScaleNext \/ AppScaleNext

SpecScale == FormationScaleInit /\ [][ScaleNext]_vars

\* ------------------------------------- specifications: nodes and formations

\* NumNodeClients workers serving FormationNodeViewSet.add.
NodeAddInit ==
  /\ formations = FormationIds
  /\ layers = LayerIds
  /\ nodes = <<>>
  /\ nodeReq = [r \in 1..NumNodeClients |-> IdleNode]
  /\ destroyReq = [r \in {1} |-> IdleDestroy]
  /\ ScaleQuiet /\ ConfigQuiet /\ AppQuiet

NodeAddNext ==
  \/ \E r \in DOMAIN nodeReq : NodeAddLookup(r)
  \/ \E r \in DOMAIN nodeReq : NodeAddExists(r)
  \/ \E r \in DOMAIN nodeReq : NodeAddNew(r)
  \/ \E r \in DOMAIN nodeReq : NodeAddBuild(r)
  \/ \E r \in DOMAIN nodeReq : NodeAddRespond(r)

SpecNodeAdd == NodeAddInit /\ [][NodeAddNext]_vars

\* The Node tables a Formation can hold: at most MaxNodes rows, no fqdn
\* twice in a Layer.
RECURSIVE NodeTables(_)
NodeTables(n) ==
  IF n = 0 THEN {<<>>}
  ELSE LET shorter == NodeTables(n - 1)
       IN  shorter \cup
             {Append(t, NodeRow(f, l, fqdn, "up")) :
                t \in {u \in shorter : Len(u) = n - 1},
                f \in FormationIds, l \in LayerIds, fqdn \in Fqdns}

UniqueFqdns(t) ==
  \A i, j \in DOMAIN t :
    (i # j /\ t[i].formation = t[j].formation /\ t[i].layer = t[j].layer)
      => t[i].fqdn # t[j].fqdn

\* One worker serving FormationViewSet.destroy, over every Formation.
FormationDestroyInit ==
  /\ formations = FormationIds
  /\ layers \in SUBSET LayerIds
  /\ nodes \in {t \in NodeTables(MaxNodes) :
                  UniqueFqdns(t) /\ \A i \in DOMAIN t : t[i].layer \in layers}
  /\ nodeReq = [r \in {1} |-> IdleNode]
  /\ destroyReq = [r \in {1} |-> IdleDestroy]
  /\ grants \in SUBSET GrantUniverse
  /\ providers = [p \in ProviderIds |-> NoProvider]
  /\ appContainers = [a \in AppIds |-> EmptyDict]
  /\ containerLayout = [a \in AppIds |-> [t \in Types |-> 0]]
  /\ scaleReq = [r \in {1} |-> IdleScale]
  /\ ConfigQuiet /\ AppQuiet

FormationDestroyNext ==
  \/ \E r \in DOMAIN destroyReq : FormationDestroyGetObject(r)
  \/ \E r \in DOMAIN destroyReq : FormationDestroyNode(r)
  \/ \E r \in DOMAIN destroyReq : FormationDestroyLayers(r)
  \/ \E r \in DOMAIN destroyReq : FormationDestroyDispatch(r)
  \/ \E r \in DOMAIN destroyReq : ControllerTaskStart(r)
  \/ \E r \in DOMAIN destroyReq : ControllerTaskFinish(r)
  \/ \E r \in DOMAIN destroyReq : FormationDestroyWait(r)

SpecFormationDestroy == FormationDestroyInit /\ [][FormationDestroyNext]_vars

\* ------------------------------------------------ specifications: configs

\* One request to AppConfigViewSet.create, over every latest Config.
ConfigMergeInit ==
  /\ configs \in {<<ConfigRow("a1", 1, EmptyDict), ConfigRow("a2", 1, EmptyDict),
                      ConfigRow("a1", 2, p)>> : p \in ConfigMaps}
  /\ configReq = [r \in {1} |-> IdleConfig]
  /\ ScaleQuiet /\ FormationQuiet /\ AppQuiet

\* NumConfigClients clients, each sending one request to
\* AppConfigViewSet.create at the same time.
ConfigInit ==
  /\ configs = <<ConfigRow("a1", 1, EmptyDict)>>
  /\ configReq = [r \in 1..NumConfigClients |-> IdleConfig]
  /\ ScaleQuiet /\ FormationQuiet /\ AppQuiet

ConfigNext ==
  \/ \E r \in DOMAIN configReq : ConfigCreateGetObject(r)
  \/ \E r \in DOMAIN configReq : ConfigCreateSave(r)
  \/ \E r \in DOMAIN configReq : ConfigCreatePostSave(r)

SpecConfigMerge == ConfigMergeInit /\ [][ConfigNext]_vars

SpecConfig == ConfigInit /\ [][ConfigNext]_vars

\* --------------------------------------------------- specifications: apps

AppNext ==
  \/ \E r \in DOMAIN appReq : AppCreatePreSave(r)
  \/ \E r \in DOMAIN appReq : AppCreateSave(r)
  \/ \E r \in DOMAIN appReq : AppCreateBuild(r)
  \/ \E r \in DOMAIN appReq : AppUpdateGetObject(r)
  \/ \E r \in DOMAIN appReq : AppUpdateSave(r)
  \/ \E r \in DOMAIN appReq : AppDestroyGetObject(r)
  \/ \E r \in DOMAIN appReq : AppDestroyTeardown(r)
  \/ \E r \in DOMAIN appReq : AppDispatch(r)
  \/ \E r \in DOMAIN appReq : AppTaskFinish(r)
  \/ \E r \in DOMAIN appReq : AppJoin(r)
  \/ \E r \in DOMAIN appReq : AppRespond(r)

\* One worker serving the App endpoints, with the Celery workers beside it.
AppLifecycleInit ==
  /\ appRows = [i \in AppSlots |-> NoApp]
  /\ appReq = [r \in {1} |-> IdleApp]
  /\ ScaleQuiet /\ FormationQuiet /\ ConfigQuiet

SpecAppLifecycle == AppLifecycleInit /\ [][AppNext]_vars

\* NumAppClients workers serving the App endpoints.
AppInit ==
  /\ appRows = [i \in AppSlots |-> NoApp]
  /\ appReq = [r \in 1..NumAppClients |-> IdleApp]
  /\ ScaleQuiet /\ FormationQuiet /\ ConfigQuiet

SpecApp == AppInit /\ [][AppNext]_vars

\* ---------------------------------------------- properties: the scale endpoints

\* The requester owns a Provider whose credentials are not empty.
OwnsCredentials(user) ==
  \E p \in ProviderIds :
    /\ providers[p] # NoProvider
    /\ providers[p].owner = user
    /\ providers[p].creds # {}

\* C1: a scale request (either viewset) whose mapping holds a value that is
\* not an integer fails with 400 'Invalid scaling format' before anything
\* else: no Node/Container scale is invoked, the App's stored structure is
\* not saved and no converge is run.
C1_NonIntegerRejected ==
  \A r \in DOMAIN scaleReq :
    LET q == scaleReq[r]
    IN  q.hadNonInteger =>
          /\ q.pc = "done" => q.response = InvalidScaleFormat
          /\ ~q.invoked /\ ~q.saved /\ ~q.converged

\* C2: a scale request (either viewset) whose mapping holds integers, one of
\* them negative, fails with 400 'Invalid scaling format' before any mutation: the scale
\* operation is never invoked with a negative count and no App stores one.
C2_NegativeRejected ==
  /\ \A r \in DOMAIN scaleReq :
       LET q == scaleReq[r]
       IN  (q.hadNegative /\ ~q.hadNonInteger) =>
             /\ q.pc = "done" => q.response = InvalidScaleFormat
             /\ ~q.invoked
  /\ \A r \in DOMAIN scaleReq :
       scaleReq[r].invoked =>
         \A t \in DOMAIN scaleReq[r].new_structure :
           scaleReq[r].new_structure[t] >= 0
  /\ \A a \in AppIds : \A t \in DOMAIN appContainers[a] : appContainers[a][t] >= 0

\* C3: FormationViewSet.scale with a well-formed mapping: a requester who
\* owns no Provider with non-empty credentials gets 400 'No provider
\* credentials available' and Node.objects.scale is not invoked; a requester
\* who owns one passes the check, and Node.objects.scale is invoked once the
\* Formation is found.
C3_CredentialsGate ==
  \A r \in DOMAIN scaleReq :
    LET q == scaleReq[r]
    IN  (q.view = "formation" /\ q.parsed) =>
          IF OwnsCredentials(q.user)
          THEN /\ q.response # NoProviderCredentials
               /\ (q.pc = "done" /\ FormationOwner(q.id) = q.user) =>
                     (q.invoked /\ q.response.body \in NodeScaleOutcomes(q.new_structure) \cup {"databag"})
          ELSE /\ ~q.invoked
               /\ q.pc \in {"creds", "done"}
               /\ q.pc = "done" => q.response = NoProviderCredentials

\* C3's case: the requester's only Provider has empty credentials while
\* another user's Provider has some, and the request was refused.
C3_Witness ==
  \E r \in DOMAIN scaleReq :
    /\ scaleReq[r].view = "formation"
    /\ scaleReq[r].parsed
    /\ scaleReq[r].pc = "done"
    /\ scaleReq[r].response = NoProviderCredentials
    /\ \E p \in ProviderIds :
         providers[p].owner = scaleReq[r].user /\ providers[p].creds = {}
    /\ \E p \in ProviderIds :
         /\ providers[p] # NoProvider
         /\ providers[p].owner # scaleReq[r].user
         /\ providers[p].creds # {}

\* The part of AppViewSet.scale from the App being loaded to its structure
\* being saved.
InScaleSection(r) == scaleReq[r].pc \in {"container_scale", "save"}

\* C10: scale requests on one App are mutually exclusive between loading
\* the App and saving its structure, so that once they have completed the
\* stored structure agrees with the Container layout.
C10_ScaleMutualExclusion ==
  /\ \A r1, r2 \in DOMAIN scaleReq :
       (r1 # r2 /\ scaleReq[r1].id = scaleReq[r2].id) =>
         ~(InScaleSection(r1) /\ InScaleSection(r2))
  /\ (\A r \in DOMAIN scaleReq : scaleReq[r].pc = "done") =>
       \A a \in AppIds : \A t \in DOMAIN appContainers[a] :
         appContainers[a][t] = containerLayout[a][t]

\* ----------------------------------- properties: nodes and formations

\* C4: no two Nodes share an fqdn within one (formation, layer), whatever
\* the interleaving of add requests: an add of an fqdn the (formation,
\* layer) already holds answers 409, creates no Node and builds nothing, and
\* an add that answers 201 created and built its Node.
C4_FqdnUniquePerLayer ==
  /\ UniqueFqdns(nodes)
  /\ \A r \in DOMAIN nodeReq :
       nodeReq[r].response.status = 409 =>
         (nodeReq[r].created = 0 /\ ~nodeReq[r].built)
  /\ \A r \in DOMAIN nodeReq :
       nodeReq[r].response.status = 201 =>
         (nodeReq[r].created # 0 /\ nodeReq[r].built)

\* The Formation of request q is torn down: it has no Node, no Layer and no
\* row.
TornDown(q) ==
  /\ \A i \in DOMAIN nodes : nodes[i].formation # q.id
  /\ layers = {}
  /\ q.id \notin formations

\* C7: a Formation destroy request that finds its Formation tears it down
\* (every Node and Layer removed, also when a deprovision call failed) and
\* then triggers exactly one controller converge, which has completed when
\* the 204 is returned.
C7_DestroyThenConverge ==
  \A r \in DOMAIN destroyReq :
    LET q == destroyReq[r]
    IN  /\ q.dispatched <= 1
        /\ q.dispatched = 1 => TornDown(q)
        /\ (q.pc = "done" /\ q.response.status \notin {403, 404}) =>
             q.dispatched = 1
        /\ q.response.status = 204 =>
             (TornDown(q) /\ q.dispatched = 1 /\ q.task = "success")

\* C7's case: a Formation of 2 Layers and 3 Nodes was destroyed, a
\* deprovision call failed on the way, and the 204 was returned.
C7_Witness ==
  \E r \in DOMAIN destroyReq :
    /\ destroyReq[r].response.status = 204
    /\ destroyReq[r].deprovisionFailed
    /\ destroyReq[r].removedNodes = 3
    /\ destroyReq[r].removedLayers = 2

\* ------------------------------------------------- properties: configs

\* The Config that was the latest of request q's App when q arrived.
PriorConfig(q) ==
  CHOOSE i \in 1..q.seen :
    /\ configs[i].app = q.id
    /\ \A j \in 1..q.seen : configs[j].app = q.id => j <= i

\* C5: the Config a create request saves holds the prior latest values
\* overridden by the provided non-null entries, without the keys provided as
\* null, every other key of the prior values unchanged; its version is the
\* prior latest version plus 1; the prior Config is not modified.
C5_ConfigMerge ==
  \A r \in DOMAIN configReq :
    LET q == configReq[r]
    IN  q.created # 0 =>
          LET new == configs[q.created]
              prior == configs[PriorConfig(q)]
              P == prior.values
              U == q.provided
          IN  /\ new.app = q.id
              /\ new.version = prior.version + 1
              /\ prior = ConfigRow(q.id, q.objVersion, q.objValues)
              /\ \A k \in ConfigKeys :
                   IF k \in DOMAIN U /\ U[k] # NullV
                   THEN k \in DOMAIN new.values /\ new.values[k] = U[k]
                   ELSE IF k \in DOMAIN U
                   THEN k \notin DOMAIN new.values
                   ELSE /\ (k \in DOMAIN new.values) = (k \in DOMAIN P)
                        /\ k \in DOMAIN P => new.values[k] = P[k]
              /\ DOMAIN new.values \subseteq ConfigKeys

\* C5's case: {"A": "1", "B": "2"} updated with {"B": null, "C": "2"}.
C5_Witness ==
  \E r \in DOMAIN configReq :
    /\ configReq[r].created # 0
    /\ configReq[r].objValues = ("A" :> StrV(<<"1">>)) @@ ("B" :> StrV(<<"2">>))
    /\ configReq[r].provided = ("B" :> NullV) @@ ("C" :> StrV(<<"2">>))
    /\ configs[configReq[r].created].values =
         ("A" :> StrV(<<"1">>)) @@ ("C" :> StrV(<<"2">>))

\* C9: under any interleaving of Config create requests of one App, the
\* versions of its Configs are pairwise distinct, a new Config's version is
\* greater than that of every Config that existed when its request arrived,
\* and what a completed request provided is in the latest Config unless a
\* later request overrode or removed it.
C9_VersionsMonotonic ==
  /\ \A i, j \in DOMAIN configs :
       (i # j /\ configs[i].app = configs[j].app) =>
         configs[i].version # configs[j].version
  /\ \A r \in DOMAIN configReq :
       configReq[r].created # 0 =>
         \A j \in 1..configReq[r].seen :
           configs[j].app = configReq[r].id =>
             configs[configReq[r].created].version > configs[j].version
  /\ \A r1, r2 \in DOMAIN configReq :
       LET q1 == configReq[r1]
           q2 == configReq[r2]
       IN  (/\ q1.created # 0 /\ q2.created # 0 /\ q1.id = q2.id
            /\ q1.created < q2.created) =>
             \A k \in DOMAIN q1.provided :
               (q1.provided[k] # NullV /\ k \notin DOMAIN q2.provided) =>
                 /\ k \in DOMAIN configs[q2.created].values
                 /\ configs[q2.created].values[k] = q1.provided[k]

\* ---------------------------------------------------- properties: apps

\* C6: on App create and App destroy the two converge tasks are dispatched
\* together, once, after the build or the teardown, and the 201/204 is
\* returned only when both have completed.
C6_ConvergeBarrier ==
  \A r \in DOMAIN appReq :
    LET q == appReq[r]
    IN  q.op \in {"create", "destroy"} =>
          /\ q.dispatched <= 1
          /\ q.dispatched = 1 =>
               /\ q.tasks[1] # "none" /\ q.tasks[2] # "none"
               /\ q.op = "create" => q.built
               /\ q.op = "destroy" => q.torn
          /\ q.response.status \in {201, 204} =>
               (q.dispatched = 1 /\ q.tasks = <<"success", "success">>)

\* C6's case: a destroy request answered 204 after its teardown and both
\* converges.
C6_Witness ==
  \E r \in DOMAIN appReq :
    /\ appReq[r].op = "destroy"
    /\ appReq[r].torn
    /\ appReq[r].response.status = 204
    /\ appReq[r].tasks = <<"success", "success">>

\* C8: a Formation without a domain never has more than one App, whatever
\* the interleaving of App requests, and a create refused with 400
\* 'Formation does not support multiple apps' saved, built and dispatched
\* nothing.
C8_SingleAppWithoutDomain ==
  /\ \A f \in FormationIds :
       FormationDomain(f) = "" => Cardinality(AppsOf(f)) <= 1
  /\ \A r \in DOMAIN appReq :
       (appReq[r].op = "create" /\ appReq[r].response.status = 400) =>
         (appReq[r].slot = 0 /\ ~appReq[r].built /\ appReq[r].dispatched = 0)

====
